---- MODULE Spec2Model ----
(***************************************************************************)
(* Hierarchical document chunking engine and overlap repair pass of        *)
(* NOSO-QA-SYSTEM (src/src/chunking.py, src/src/add_metadata.py,           *)
(* src/fix_overlap.py).                                                    *)
(*                                                                         *)
(* A Python str is a sequence of one-character strings.  Python offsets    *)
(* are 0-based: the character text[k] of the code is text[k + 1] here.     *)
(* An Optional value is a sequence of length 0 (None) or 1.                *)
(***************************************************************************)
EXTENDS Integers, Sequences, FiniteSets, TLC

VARIABLES
    content,          \* create_adaptive_chunks: the section body
    section_title,    \* create_adaptive_chunks: "<number> <title>"
    keywords,         \* create_adaptive_chunks: list of keyword strings
    base_chunk_size,  \* create_adaptive_chunks: base size B
    start,            \* create_adaptive_chunks: loop variable
    chunks,           \* create_adaptive_chunks: list of HierarchicalChunk
    ranges,           \* history: the (start, end) offsets each chunk was cut at
    pc,               \* position in create_adaptive_chunks
    progress_file,    \* fix_overlap_in_chunks: progress_metadata.json, << >> while absent
    enriched_docs,    \* fix_overlap_in_chunks: the mapping loaded from the file
    doc_queue,        \* fix_overlap_in_chunks: documents the outer loop has yet to visit
    i,                \* fix_overlap_in_chunks: index of the inner loop
    rpc,              \* position in fix_overlap_in_chunks
    file_before,      \* history: the file as the first run read it
    file_first,       \* history: the file as the first run wrote it
    printed,          \* the lines fix_overlap_in_chunks printed in the current run
    documents,        \* hierarchical_chunk_documents: the mapping from document name to text
    parse_i,          \* parse_sections: the line index i
    sections,         \* parse_sections: the sections emitted so far
    current_section,  \* parse_sections: the open section, None before the first heading
    current_content,  \* parse_sections: the content lines of the open section
    section_i,        \* hierarchical_chunk_documents: sections already chunked
    all_chunks,       \* hierarchical_chunk_documents: the chunks of the document so far
    chunk_section,    \* history: the index of the section each chunk was cut from
    chunked_docs,     \* hierarchical_chunk_documents: the mapping it returns
    ppc,              \* position in hierarchical_chunk_documents and parse_sections
    hier_file,        \* progress_metadata_hierarchical.json, << >> while absent
    hier_docs,        \* add_metadata_to_hierarchical_chunks: its enriched_docs
    enriched_chunks,  \* add_metadata_to_hierarchical_chunks: records of the current document
    epc,              \* position in add_metadata_to_hierarchical_chunks
    hier_torn,        \* progress_metadata_hierarchical.json was opened for writing, not yet dumped
    enrich_queue,     \* add_metadata_to_hierarchical_chunks: documents the loop has yet to visit
    loaded_docs,      \* history: the mapping the current run loaded from the progress file
    enrich_runs       \* history: how many runs of add_metadata_to_hierarchical_chunks began

chunkVars == <<content, section_title, keywords, base_chunk_size, start, chunks, ranges, pc>>

repairVars == <<progress_file, enriched_docs, doc_queue, i, rpc, file_before, file_first, printed>>

parseVars == <<documents, parse_i, sections, current_section, current_content, section_i,
               all_chunks, chunk_section, chunked_docs, ppc>>

enrichVars == <<hier_file, hier_docs, enriched_chunks, epc, hier_torn, enrich_queue,
                loaded_docs, enrich_runs>>

vars == <<chunkVars, repairVars, parseVars, enrichVars>>

\* fix_overlap_in_chunks is not running and its file does not exist
RepairIdle ==
    /\ progress_file = << >> /\ enriched_docs = << >> /\ doc_queue = << >>
    /\ i = 0 /\ rpc = "idle" /\ file_before = << >> /\ file_first = << >>
    /\ printed = << >>

\* hierarchical_chunk_documents and add_metadata_to_hierarchical_chunks are not running
ParseIdle ==
    /\ documents = << >> /\ parse_i = 0 /\ sections = << >> /\ current_section = << >>
    /\ current_content = << >> /\ section_i = 0 /\ all_chunks = << >>
    /\ chunk_section = << >> /\ chunked_docs = << >> /\ ppc = "idle"
    /\ hier_file = << >> /\ hier_docs = << >> /\ enriched_chunks = << >> /\ epc = "idle"
    /\ hier_torn = FALSE /\ enrich_queue = << >> /\ loaded_docs = << >> /\ enrich_runs = 0

-----------------------------------------------------------------------------
(* Bounds of the model *)

MaxWords == 4       \* number of words a generated section body has at most
MaxChunks == 8      \* iterations of the chunking loop that are followed
MaxDocChunks == 3   \* chunk records a persisted document has at most
MaxTotalChars == 4  \* characters the texts of a persisted document have together at most
MaxLines == 3       \* lines a generated document has at most
MaxTitleWords == 6  \* words a generated section title has at most
MaxRuns == 3        \* runs of add_metadata_to_hierarchical_chunks that are followed

-----------------------------------------------------------------------------
(* Python built-ins *)

Min(a, b) == IF a <= b THEN a ELSE b

Max(a, b) == IF a >= b THEN a ELSE b

\* text[k] for a Python index k, negative indices counting from the end
PyAt(text, k) == IF k >= 0 THEN text[k + 1] ELSE text[Len(text) + k + 1]

\* a slice bound, clamped as text[a:b] clamps it
PyBound(text, k) == IF k < 0 THEN Max(0, Len(text) + k) ELSE Min(k, Len(text))

\* text[a:b]
PySlice(text, a, b) == SubSeq(text, PyBound(text, a) + 1, PyBound(text, b))

\* the characters str.strip() removes (those of the model's alphabet)
PySpace == {" ", "\t", "\n"}

RECURSIVE LStrip(_)
LStrip(s) == IF s # <<>> /\ Head(s) \in PySpace THEN LStrip(Tail(s)) ELSE s

RECURSIVE RStrip(_)
RStrip(s) ==
    IF s # <<>> /\ s[Len(s)] \in PySpace THEN RStrip(SubSeq(s, 1, Len(s) - 1)) ELSE s

\* str.strip()
Strip(s) == RStrip(LStrip(s))

\* sep.join(parts)
RECURSIVE Join(_, _)
Join(sep, parts) ==
    IF parts = <<>> THEN <<>>
    ELSE IF Len(parts) = 1 THEN parts[1]
    ELSE parts[1] \o sep \o Join(sep, Tail(parts))

-----------------------------------------------------------------------------
(* chunking.py: find_word_boundary *)

\* the characters find_word_boundary stops at
WordBreak == {" ", "\t", "\n"}

\* line 111: the loop "while pos > 0 and text[pos - 1] not in ' \t\n'" stops at pos
StopsLeft(text, pos) == pos <= 0 \/ PyAt(text, pos - 1) \in WordBreak

\* lines 110-113: the first position at or left of pos at which the loop stops
ScanLeft(text, pos) ==
    IF StopsLeft(text, pos) THEN pos
    ELSE CHOOSE p \in 0..pos :
             /\ StopsLeft(text, p)
             /\ \A q \in (p + 1)..pos : ~StopsLeft(text, q)

\* line 116: the loop "while pos < len(text) and text[pos] not in ' \t\n'" stops at pos
StopsRight(text, pos) == pos >= Len(text) \/ PyAt(text, pos) \in WordBreak

\* lines 115-118: the first position at or right of pos at which the loop stops
ScanRight(text, pos) ==
    IF StopsRight(text, pos) THEN pos
    ELSE CHOOSE p \in pos..Len(text) :
             /\ StopsRight(text, p)
             /\ \A q \in pos..(p - 1) : ~StopsRight(text, q)

find_word_boundary(text, target_pos, direction) ==
    IF direction = -1 THEN ScanLeft(text, target_pos) ELSE ScanRight(text, target_pos)

\* text[pos] raises IndexError for pos < -len(text); only the rightward scan can
\* be handed such a position, and it reads text[target_pos] first
find_word_boundary_raises(text, target_pos, direction) ==
    direction # -1 /\ target_pos < -Len(text)

-----------------------------------------------------------------------------
(* chunking.py: create_adaptive_chunks *)

OverlapCap == 200

\* the label of line 163, its 16 Cyrillic and ASCII characters transliterated one for
\* one ("K" upper case, the others lower case, one blank inside, ": " at the end)
KeywordsLabel == <<"K", "l", "u", "c", "e", "v", "y", "e", " ", "s", "l", "o", "v", "a", ":", " ">>

\* ChunkText without the keywords after the label
ChunkTextWithoutKeywords(title, kws, chunk_content) ==
    title \o <<"\n", "\n">> \o KeywordsLabel \o <<"\n", "\n">> \o chunk_content

\* f"{section_title}\n\n<label>{', '.join(keywords)}\n\n{chunk_content}"
ChunkText(title, kws, chunk_content) ==
    title \o <<"\n", "\n">> \o KeywordsLabel \o Join(<<",", " ">>, kws)
          \o <<"\n", "\n">> \o chunk_content

\* min(200, int(remaining * 0.15)); int(r * 0.15) = floor(15 r / 100) for 0 <= r < 5000
OverlapSize(content_length, st) ==
    Min(OverlapCap, ((content_length - st) * 15) \div 100)

\* ChunkEnd without the snap to a word boundary of lines 156-157
ChunkEndUnsnapped(text, st, B) == Min(st + B, Len(text))

\* ChunkEnd with the end snapped forward to the next word boundary
ChunkEndSnappedForward(text, st, B) ==
    LET end == Min(st + B, Len(text))
    IN  IF end < Len(text) THEN find_word_boundary(text, end, 1) ELSE end

\* lines 153-157: the end of the chunk that starts at st
ChunkEnd(text, st, B) ==
    LET end == Min(st + B, Len(text))
    IN  IF end < Len(text) THEN find_word_boundary(text, end, -1) ELSE end

\* AdvanceTarget without the forward-progress term st + B - overlap_size
AdvanceFromEndOnly(st, end, B, overlap_size) == end - overlap_size

\* AdvanceTarget with the overlap subtracted twice
AdvanceOverlapTwice(st, end, B, overlap_size) ==
    Max(st + B - overlap_size, end - overlap_size) - overlap_size

\* line 186: the next start before it is snapped to a word boundary
AdvanceTarget(st, end, B, overlap_size) ==
    Max(st + B - overlap_size, end - overlap_size)

\* lines 166-171
OverlapInfo(text, st, overlap_size) ==
    IF st > 0
    THEN << [overlap_size |-> overlap_size,
             previous_chunk_end |-> PySlice(text, Max(0, st - overlap_size), st)] >>
    ELSE << >>

\* lines 173-180 (and 134-140 with no overlap_info)
HierarchicalChunk(text, title, kws, overlap_info) ==
    [text |-> text, section_path |-> title, hierarchy_level |-> 1,
     section_title |-> title, keywords |-> kws, overlap_info |-> overlap_info]

\* lines 125-145: the early returns and the loop's initialisation
Call ==
    /\ pc = "call"
    /\ IF Strip(content) = <<>>
       THEN /\ pc' = "done"
            /\ UNCHANGED <<chunks, ranges>>
       ELSE IF Len(content) <= base_chunk_size
       THEN /\ chunks' = << HierarchicalChunk(ChunkText(section_title, keywords, content),
                                              section_title, keywords, << >>) >>
            /\ ranges' = << <<0, Len(content)>> >>
            /\ pc' = "done"
       ELSE /\ pc' = "loop"
            /\ UNCHANGED <<chunks, ranges>>
    /\ start' = 0
    /\ UNCHANGED <<content, section_title, keywords, base_chunk_size>>
    /\ UNCHANGED <<repairVars, parseVars, enrichVars>>

\* lines 147-187: one iteration of the while loop
Iterate ==
    /\ pc = "loop"
    /\ start < Len(content)
    /\ Len(chunks) < MaxChunks
    /\ LET content_length == Len(content)
           overlap_size == OverlapSize(content_length, start)
           end == ChunkEnd(content, start, base_chunk_size)
           chunk_content == PySlice(content, start, end)
           chunk == HierarchicalChunk(ChunkText(section_title, keywords, chunk_content),
                                      section_title, keywords,
                                      OverlapInfo(content, start, overlap_size))
           target == AdvanceTarget(start, end, base_chunk_size, overlap_size)
       IN  /\ chunks' = Append(chunks, chunk)
           /\ ranges' = Append(ranges, <<start, end>>)
           /\ IF end >= content_length
              THEN /\ pc' = "done"
                   /\ start' = start
              ELSE IF find_word_boundary_raises(content, target, 1)
              THEN /\ pc' = "IndexError"
                   /\ start' = target
              ELSE /\ pc' = "loop"
                   /\ start' = find_word_boundary(content, target, 1)
    /\ UNCHANGED <<content, section_title, keywords, base_chunk_size>>
    /\ UNCHANGED <<repairVars, parseVars, enrichVars>>

\* line 147 false, line 189: the loop ends because start reached the end
LoopExit ==
    /\ pc = "loop"
    /\ start >= Len(content)
    /\ pc' = "done"
    /\ UNCHANGED <<content, section_title, keywords, base_chunk_size, start, chunks, ranges>>
    /\ UNCHANGED <<repairVars, parseVars, enrichVars>>

-----------------------------------------------------------------------------
(* Inputs of create_adaptive_chunks *)

DefaultBaseChunkSize == 1250

\* word lengths of the generated bodies: 0 gives runs of whitespace
WordLens == {0, 1, 190, 700}

BaseSizes == {2, 201, DefaultBaseChunkSize}

Word(n) == [k \in 1..n |-> "a"]

\* the k-th separator: the three characters at which a word ends, in turn
Separator(k) == << <<" ">>, <<"\n">>, <<"\t">> >>[(k % 3) + 1]

RECURSIVE Body(_, _)
Body(lens, k) ==
    IF k > Len(lens) THEN <<>>
    ELSE IF k = Len(lens) THEN Word(lens[k])
    ELSE Word(lens[k]) \o Separator(k) \o Body(lens, k + 1)

Bodies == { Body(lens, 1) : lens \in UNION { [1..n -> WordLens] : n \in 1..MaxWords } }

Titles == { <<"1", ".", " ", "a", "b">> }

KeywordLists == { << >>, << <<"w", "o", "r", "d">>, <<"k", "e", "y", "s">> >> }

InitChunk ==
    /\ content \in Bodies
    /\ section_title \in Titles
    /\ keywords \in KeywordLists
    /\ base_chunk_size \in BaseSizes
    /\ start = 0
    /\ chunks = << >>
    /\ ranges = << >>
    /\ pc = "call"
    /\ RepairIdle
    /\ ParseIdle

NextChunk == Call \/ Iterate \/ LoopExit

\* create_adaptive_chunks on bodies of words, for tiny, small and the default base size
SpecChunk == InitChunk /\ [][NextChunk]_vars

InitDefault ==
    /\ content \in Bodies
    /\ section_title \in Titles
    /\ keywords \in KeywordLists
    /\ base_chunk_size = DefaultBaseChunkSize
    /\ start = 0
    /\ chunks = << >>
    /\ ranges = << >>
    /\ pc = "call"
    /\ RepairIdle
    /\ ParseIdle

\* create_adaptive_chunks with the default base_chunk_size of line 122
SpecDefault == InitDefault /\ [][NextChunk]_vars

\* the keywords only prefix the chunk texts; the loop does not read them
InitLargeBase ==
    /\ content \in Bodies
    /\ section_title \in Titles
    /\ keywords = << >>
    /\ base_chunk_size \in { B \in BaseSizes : B > OverlapCap }
    /\ start = 0
    /\ chunks = << >>
    /\ ranges = << >>
    /\ pc = "call"
    /\ RepairIdle
    /\ ParseIdle

\* create_adaptive_chunks run to its end, for base sizes above the overlap cap: the
\* interpreter keeps executing the function while a statement is left to execute
SpecLargeBase == InitLargeBase /\ [][NextChunk]_vars /\ WF_vars(NextChunk)

-----------------------------------------------------------------------------
(* Properties of create_adaptive_chunks *)

\* the split is finished and took the loop (the content is longer than the base size)
SplitDone == pc = "done" /\ Len(content) > base_chunk_size /\ Strip(content) # << >>

RangeStart(k) == ranges[k][1]

RangeEnd(k) == ranges[k][2]

\* C2: when a content longer than the base size has been split, the chunks' ranges
\* [start, end) cover [0, content_length): the first starts at 0, each next one
\* starts at or before the end of the one before, the last ends at content_length.
C2_RangesCoverContent ==
    SplitDone =>
        /\ ranges # << >>
        /\ RangeStart(1) = 0
        /\ \A k \in 1..(Len(ranges) - 1) : RangeStart(k + 1) <= RangeEnd(k)
        /\ RangeEnd(Len(ranges)) = Len(content)

\* C3 as claimed: for every positive base size, the start offset strictly increases
\* from each emitted chunk to the next (and the loop raises no error).
C3_StartIncreasesForEveryBase ==
    /\ \A k \in 1..(Len(ranges) - 1) : RangeStart(k + 1) > RangeStart(k)
    /\ pc # "IndexError"

\* the base size exceeds the overlap size of the first iteration, the largest one
BaseExceedsOverlap == base_chunk_size > OverlapSize(Len(content), 0)

\* C3 amended: when the base size exceeds the overlap size min(200, floor(0.15 *
\* content_length)), the start offset strictly increases from each emitted chunk to
\* the next, stays within [0, content_length] and the loop raises no error, so the
\* loop finishes.
C3_StartIncreasesWhenBaseExceedsOverlap ==
    BaseExceedsOverlap =>
        /\ \A k \in 1..(Len(ranges) - 1) : RangeStart(k + 1) > RangeStart(k)
        /\ start >= 0 /\ start <= Len(content)
        /\ pc = "loop" /\ ranges # << >> => start > RangeStart(Len(ranges))
        /\ pc # "IndexError"

\* a split into three chunks or more with a base size above the overlap cap is done
C3_Witness ==
    SplitDone /\ base_chunk_size > OverlapCap /\ Len(ranges) >= 3

\* the overlap_size recorded in chunk k (k >= 2)
RecordedOverlap(k) == chunks[k].overlap_info[1].overlap_size

\* C7 as claimed: each later chunk starts exactly the overlap_size recorded in its
\* overlap_info before the end of the chunk before it.
C7_SharedRangeIsRecordedOverlap ==
    \A k \in 1..(Len(ranges) - 1) :
        /\ chunks[k + 1].overlap_info # << >>
        /\ RangeEnd(k) - RangeStart(k + 1) = RecordedOverlap(k + 1)

\* C7 amended: each later chunk starts at most min(200, floor(0.15 * (content_length -
\* earlier start))) characters before the end of the chunk before it: the overlap size
\* of the earlier chunk's iteration bounds the shared range, which the snap of the new
\* start to a word boundary can shorten.
C7_SharedRangeAtMostOverlap ==
    \A k \in 1..(Len(ranges) - 1) :
        RangeEnd(k) - RangeStart(k + 1)
            <= Min(OverlapCap, ((Len(content) - RangeStart(k)) * 15) \div 100)

\* two consecutive chunks that share a non-empty range, base size above the cap
C7_Witness ==
    /\ SplitDone /\ base_chunk_size > OverlapCap
    /\ \E k \in 1..(Len(ranges) - 1) : RangeEnd(k) - RangeStart(k + 1) > 0

\* offset p lies strictly inside a word of the content
InsideWord(p) ==
    /\ 0 < p /\ p < Len(content)
    /\ PyAt(content, p - 1) \notin WordBreak
    /\ PyAt(content, p) \notin WordBreak

\* C10: with a base size above the 200-character overlap cap, no chunk's start or end
\* offset lies strictly inside a word of the content.
C10_NoBoundaryInsideWord ==
    base_chunk_size > OverlapCap =>
        \A k \in 1..Len(ranges) : ~InsideWord(RangeStart(k)) /\ ~InsideWord(RangeEnd(k))

\* a split whose chunks start and end at offsets strictly between 0 and content_length
C10_Witness ==
    /\ SplitDone /\ base_chunk_size > OverlapCap
    /\ \E k \in 1..Len(ranges) : 0 < RangeEnd(k) /\ RangeEnd(k) < Len(content)
    /\ \E k \in 1..Len(ranges) : 0 < RangeStart(k) /\ RangeStart(k) < Len(content)

\* the number of characters of chunk k's text after the title and keyword prefix
ExcerptLen(k) == Len(chunks[k].text) - Len(ChunkText(section_title, keywords, << >>))

\* C11: every chunk that create_adaptive_chunks emits carries a non-empty excerpt of
\* the content (its range has end > start), and blank content gives no chunk at all
C11_EveryChunkHasExcerpt ==
    base_chunk_size > OverlapCap =>
        /\ \A k \in 1..Len(chunks) : ExcerptLen(k) > 0 /\ RangeEnd(k) > RangeStart(k)
        /\ pc = "done" /\ Strip(content) = << >> => chunks = << >>

\* C12: the excerpt of every emitted chunk is at most base_chunk_size characters long
C12_ExcerptAtMostBase ==
    \A k \in 1..Len(chunks) :
        /\ ExcerptLen(k) <= base_chunk_size
        /\ RangeEnd(k) <= Min(RangeStart(k) + base_chunk_size, Len(content))

\* a finished split with a chunk whose end was snapped back and a chunk of full size
C12_Witness ==
    /\ SplitDone
    /\ \E k \in 1..Len(chunks) : 0 < ExcerptLen(k) /\ ExcerptLen(k) < base_chunk_size
                                  /\ RangeEnd(k) < Len(content)
    /\ \E k \in 1..Len(chunks) : ExcerptLen(k) = base_chunk_size

\* C17: non-blank content of at most base_chunk_size characters (exactly that many
\* included) gives exactly one chunk, whose text is the title, the keyword line and
\* the whole content and which has no overlap_info; blank content gives no chunk
C17_SmallContentIsOneChunk ==
    pc = "done" =>
        /\ Strip(content) = << >> => chunks = << >>
        /\ (Strip(content) # << >> /\ Len(content) <= base_chunk_size) =>
               /\ Len(chunks) = 1
               /\ chunks[1].text = section_title \o <<"\n", "\n">> \o KeywordsLabel
                                       \o Join(<<",", " ">>, keywords)
                                       \o <<"\n", "\n">> \o content
               /\ chunks[1].overlap_info = << >>

\* a content of exactly base_chunk_size characters, with keywords, was chunked
C17_Witness ==
    /\ pc = "done"
    /\ Strip(content) # << >> /\ Len(content) = base_chunk_size
    /\ keywords # << >>
    /\ Len(chunks) = 1

\* an iteration that does not end the loop moves start forward by at least
\* base_chunk_size - 200
C19_Advance ==
    (pc = "loop" /\ pc' = "loop") => start' >= start + base_chunk_size - 200

\* the loop is over because a chunk reached the end of the content or start did
C19_EndReached ==
    (pc = "done" /\ ranges # << >>) =>
        RangeEnd(Len(ranges)) = Len(content) \/ start >= Len(content)

\* C19: with the default base size, and any base size above the 200-character overlap
\* cap, create_adaptive_chunks ends without error on every content: every iteration
\* that does not reach the end advances start by at least base_chunk_size - 200, and
\* the loop ends when a chunk reaches content_length or start reaches content_length
C19_TerminatesWithoutError ==
    /\ [](pc # "IndexError")
    /\ [][C19_Advance]_vars
    /\ []C19_EndReached
    /\ <>(pc = "done")

\* a split of several chunks with the default base size has ended
C19_Witness ==
    SplitDone /\ base_chunk_size = DefaultBaseChunkSize /\ Len(ranges) >= 2

\* C21: in a split of several chunks with a base size above 200, the first chunk has
\* no overlap_info and every later chunk has one, with overlap_size =
\* min(200, floor(0.15 * (content_length - start))) for its own start and with
\* previous_chunk_end the overlap_size characters of the content just before that
\* start; these characters lie inside the previous chunk's range, and the chunk's text
\* is its prefix and its own range of the content, nothing else
C21_OverlapInfoIsPreviousTail ==
    (SplitDone /\ base_chunk_size > 200 /\ Len(chunks) >= 2) =>
        /\ chunks[1].overlap_info = << >>
        /\ \A k \in 2..Len(chunks) :
               /\ chunks[k].overlap_info # << >>
               /\ LET info == chunks[k].overlap_info[1]
                      st == RangeStart(k)
                  IN  /\ info.overlap_size = Min(200, (15 * (Len(content) - st)) \div 100)
                      /\ Len(info.previous_chunk_end) = info.overlap_size
                      /\ info.previous_chunk_end =
                             SubSeq(content, st - info.overlap_size + 1, st)
                      /\ RangeStart(k - 1) <= st - info.overlap_size
                      /\ st <= RangeEnd(k - 1)
               /\ chunks[k].text =
                      section_title \o <<"\n", "\n">> \o KeywordsLabel
                          \o Join(<<",", " ">>, keywords) \o <<"\n", "\n">>
                          \o SubSeq(content, RangeStart(k) + 1, RangeEnd(k))

-----------------------------------------------------------------------------
(* fix_overlap.py: fix_overlap_in_chunks *)

LowerLetters ==
    {"a", "b", "c", "d", "e", "f", "g", "h", "i", "j", "k", "l", "m",
     "n", "o", "p", "q", "r", "s", "t", "u", "v", "w", "x", "y", "z"}

Digits == {"0", "1", "2", "3", "4", "5", "6", "7", "8", "9"}

\* str.islower() of one character
IsLower(c) == c \in LowerLetters

\* str.isdigit() of one character
IsDigit(c) == c \in Digits

\* the characters of line 25 and of the lookbehind of line 29
SentenceEnd == {".", "!", "?"}

\* lines 21-22: first_char.islower() and not first_char.isdigit(), "" for an empty text
StartsWithLowercase(current_chunk_text) ==
    /\ current_chunk_text # << >>
    /\ IsLower(Head(current_chunk_text))
    /\ ~IsDigit(Head(current_chunk_text))

\* line 25: not prev_chunk_text.endswith((".", "!", "?"))
EndsWithoutPeriod(prev_chunk_text) ==
    prev_chunk_text = << >> \/ prev_chunk_text[Len(prev_chunk_text)] \notin SentenceEnd

\* the first whitespace character that follows a sentence end in text, 0 if none:
\* where the pattern (?<=[.!?])\s+ of line 29 first matches
FirstMatch(text) ==
    LET hits == { k \in 2..Len(text) : text[k] \in PySpace /\ text[k - 1] \in SentenceEnd }
    IN  IF hits = {} THEN 0 ELSE CHOOSE k \in hits : \A h \in hits : k <= h

\* the last character of the run of whitespace that starts at k: \s+ is greedy
MatchEnd(text, k) ==
    CHOOSE e \in k..Len(text) :
        /\ \A j \in k..e : text[j] \in PySpace
        /\ e = Len(text) \/ text[e + 1] \notin PySpace

\* line 29: re.split(r"(?<=[.!?])\s+", text)
RECURSIVE ReSplit(_)
ReSplit(text) ==
    LET k == FirstMatch(text)
    IN  IF k = 0 THEN << text >>
        ELSE << SubSeq(text, 1, k - 1) >>
                 \o ReSplit(SubSeq(text, MatchEnd(text, k) + 1, Len(text)))

\* LastSentence taking the first piece of the split
FirstSentence(prev_chunk_text) == Strip(ReSplit(prev_chunk_text)[1])

\* lines 29-31: sentences[-1].strip()
LastSentence(prev_chunk_text) ==
    LET sentences == ReSplit(prev_chunk_text)
    IN  Strip(sentences[Len(sentences)])

\* RewrittenChunk storing a fresh record that holds the text alone
RewrittenTextOnly(chunk, last_sentence, current_chunk_text) ==
    [text |-> last_sentence \o << " " >> \o current_chunk_text,
     metadata |-> [document_title |-> "", summary |-> 0]]

\* line 33: chunks[i]["text"] = last_sentence + " " + current_chunk_text
RewrittenChunk(chunk, last_sentence, current_chunk_text) ==
    [chunk EXCEPT !.text = last_sentence \o << " " >> \o current_chunk_text]

\* the order in which the mapping's documents are visited (dict insertion order)
DocNames == << "a.txt", "b.txt" >>

\* lines 9-10: the file is read
Load ==
    /\ rpc = "start"
    /\ enriched_docs' = progress_file
    /\ doc_queue' = SelectSeq(DocNames, LAMBDA d : d \in DOMAIN progress_file)
    /\ printed' = << >>
    /\ rpc' = "docs"
    /\ UNCHANGED <<progress_file, i, file_before, file_first>>
    /\ UNCHANGED <<chunkVars, parseVars, enrichVars>>

\* lines 12-14: a document with fewer than two chunks is passed over
SkipDoc ==
    /\ rpc = "docs"
    /\ doc_queue # << >>
    /\ Len(enriched_docs[Head(doc_queue)]) < 2
    /\ doc_queue' = Tail(doc_queue)
    /\ UNCHANGED <<progress_file, enriched_docs, i, rpc, file_before, file_first, printed>>
    /\ UNCHANGED <<chunkVars, parseVars, enrichVars>>

\* lines 12-16: the inner loop is entered at i = 1
EnterDoc ==
    /\ rpc = "docs"
    /\ doc_queue # << >>
    /\ Len(enriched_docs[Head(doc_queue)]) >= 2
    /\ i' = 1
    /\ rpc' = "chunks"
    /\ UNCHANGED <<progress_file, enriched_docs, doc_queue, file_before, file_first, printed>>
    /\ UNCHANGED <<chunkVars, parseVars, enrichVars>>

\* lines 16-36: one iteration of the inner loop; chunk i of the code is doc[i + 1]
RepairChunk ==
    /\ rpc = "chunks"
    /\ i < Len(enriched_docs[Head(doc_queue)])
    /\ LET doc_name == Head(doc_queue)
           doc == enriched_docs[doc_name]
           prev_chunk_text == Strip(doc[i].text)
           current_chunk_text == Strip(doc[i + 1].text)
           last_sentence == LastSentence(prev_chunk_text)
       IN  IF StartsWithLowercase(current_chunk_text) /\ EndsWithoutPeriod(prev_chunk_text)
           THEN /\ enriched_docs' =
                       [enriched_docs EXCEPT ![doc_name][i + 1] =
                            RewrittenChunk(doc[i + 1], last_sentence, current_chunk_text)]
                /\ printed' = Append(printed, << doc_name, i, last_sentence >>)
           ELSE UNCHANGED <<enriched_docs, printed>>
    /\ i' = i + 1
    /\ UNCHANGED <<progress_file, doc_queue, rpc, file_before, file_first>>
    /\ UNCHANGED <<chunkVars, parseVars, enrichVars>>

\* line 16: the inner loop is over, back to the outer loop
LeaveDoc ==
    /\ rpc = "chunks"
    /\ i >= Len(enriched_docs[Head(doc_queue)])
    /\ doc_queue' = Tail(doc_queue)
    /\ rpc' = "docs"
    /\ UNCHANGED <<progress_file, enriched_docs, i, file_before, file_first, printed>>
    /\ UNCHANGED <<chunkVars, parseVars, enrichVars>>

\* lines 38-41: the mapping is written back, the first run is over
Save ==
    /\ rpc = "docs"
    /\ doc_queue = << >>
    /\ file_first = << >>
    /\ progress_file' = enriched_docs
    /\ file_first' = << enriched_docs >>
    /\ rpc' = "done"
    /\ UNCHANGED <<enriched_docs, doc_queue, i, file_before, printed>>
    /\ UNCHANGED <<chunkVars, parseVars, enrichVars>>

\* line 45: the script is run again on the file it wrote
RunAgain ==
    /\ rpc = "done"
    /\ rpc' = "start"
    /\ UNCHANGED <<progress_file, enriched_docs, doc_queue, i, file_before, file_first, printed>>
    /\ UNCHANGED <<chunkVars, parseVars, enrichVars>>

\* lines 38-41: the mapping is written back by the second run
SaveAgain ==
    /\ rpc = "docs"
    /\ doc_queue = << >>
    /\ file_first # << >>
    /\ progress_file' = enriched_docs
    /\ rpc' = "rerun done"
    /\ UNCHANGED <<enriched_docs, doc_queue, i, file_before, file_first, printed>>
    /\ UNCHANGED <<chunkVars, parseVars, enrichVars>>

-----------------------------------------------------------------------------
(* Inputs of fix_overlap_in_chunks: the persisted mapping *)

\* the characters of the generated texts: a lower-case letter, an upper-case letter,
\* a sentence end, a blank
TextAlphabet == {"a", "B", ".", " "}

\* the texts that string w falls into when it is cut after cuts[1], ..., cuts[n] characters
CutAt(w, cuts) ==
    [j \in 1..Len(cuts) |-> SubSeq(w, (IF j = 1 THEN 0 ELSE cuts[j - 1]) + 1, cuts[j])]

\* cuts are n rising offsets into w, the last one at its end
IsCutting(w, cuts) ==
    /\ \A j \in 2..Len(cuts) : cuts[j - 1] <= cuts[j]
    /\ IF cuts = << >> THEN w = << >> ELSE cuts[Len(cuts)] = Len(w)

\* the metadata mapping of a chunk record: opaque to the pass, different per record
Metadata(doc_name, k) == [document_title |-> doc_name, summary |-> k]

Records(doc_name, texts) ==
    [k \in 1..Len(texts) |-> [text |-> texts[k], metadata |-> Metadata(doc_name, k)]]

\* "Dokument soderzhit pravila" (the spec's example of prev, transliterated)
ExamplePrev ==
    <<"D", "o", "k", "u", "m", "e", "n", "t", " ", "s", "o", "d", "e", "r", "z", "h", "i", "t",
      " ", "p", "r", "a", "v", "i", "l", "a">>

\* "registratsii uchastnikov." (the spec's example of cur, transliterated)
ExampleCur ==
    <<"r", "e", "g", "i", "s", "t", "r", "a", "t", "s", "i", "i", " ",
      "u", "c", "h", "a", "s", "t", "n", "i", "k", "o", "v", ".">>

\* "Pravila! Dokument soderzhit": a text with a sentence end inside
ExampleTwoSentences ==
    <<"P", "r", "a", "v", "i", "l", "a", "!", " ", "D", "o", "k", "u", "m", "e", "n", "t", " ",
      "s", "o", "d", "e", "r", "z", "h", "i", "t">>

\* "pravila?"
ExampleQuestion == <<"p", "r", "a", "v", "i", "l", "a", "?">>

ExampleTexts ==
    { << ExamplePrev, ExampleCur >>,
      << ExamplePrev \o << "." >>, ExampleCur >>,
      << ExamplePrev \o << "!" >>, ExampleCur >>,
      << ExampleTwoSentences, ExampleQuestion, ExampleCur >> }

\* b.txt: a stored document of one chunk
OneChunkDoc == << ExampleCur >>

\* the stored mapping in which a.txt's chunks have the given texts
Persisted(texts) ==
    [d \in {"a.txt", "b.txt"} |->
        IF d = "a.txt" THEN Records(d, texts) ELSE Records(d, OneChunkDoc)]

\* a.txt's chunk texts: every list within the bounds, or an example
InitRepair ==
    /\ \/ \E len \in 0..MaxTotalChars, n \in 0..MaxDocChunks :
             \E w \in [1..len -> TextAlphabet], cuts \in [1..n -> 0..len] :
                /\ IsCutting(w, cuts)
                /\ progress_file = Persisted(CutAt(w, cuts))
       \/ \E texts \in ExampleTexts : progress_file = Persisted(texts)
    /\ file_before = progress_file
    /\ file_first = << >>
    /\ enriched_docs = << >>
    /\ doc_queue = << >>
    /\ i = 0
    /\ rpc = "start"
    /\ printed = << >>
    /\ content = << >> /\ section_title = << >> /\ keywords = << >>
    /\ base_chunk_size = DefaultBaseChunkSize
    /\ start = 0 /\ chunks = << >> /\ ranges = << >> /\ pc = "idle"
    /\ ParseIdle

NextRepair == Load \/ SkipDoc \/ EnterDoc \/ RepairChunk \/ LeaveDoc \/ Save

\* one run of fix_overlap_in_chunks over a persisted mapping
SpecRepair == InitRepair /\ [][NextRepair]_vars

NextRerun ==
    Load \/ SkipDoc \/ EnterDoc \/ RepairChunk \/ LeaveDoc \/ Save \/ RunAgain \/ SaveAgain

\* fix_overlap_in_chunks run twice in a row
SpecRerun == InitRepair /\ [][NextRerun]_vars

-----------------------------------------------------------------------------
(* Properties of fix_overlap_in_chunks *)

\* s is the end of t
IsSuffix(s, t) == Len(s) <= Len(t) /\ SubSeq(t, Len(t) - Len(s) + 1, Len(t)) = s

\* C4: a second run on the file the first run wrote changes no chunk text:
\* repair(repair(M)) = repair(M).
C4_SecondRunChangesNothing ==
    rpc = "rerun done" => progress_file = file_first[1]

\* the repair that takes every borrowed sentence from the mapping as it was read
SnapshotRepair(m) ==
    [d \in DOMAIN m |->
        [k \in 1..Len(m[d]) |->
            IF /\ k >= 2
               /\ StartsWithLowercase(Strip(m[d][k].text))
               /\ EndsWithoutPeriod(Strip(m[d][k - 1].text))
            THEN [m[d][k] EXCEPT !.text = LastSentence(Strip(m[d][k - 1].text))
                                            \o << " " >> \o Strip(m[d][k].text)]
            ELSE m[d][k]]]

\* C5: the in-place pass leaves the texts that a pass computing every borrowed
\* sentence from the pre-pass chunk list leaves: the sentence prepended to chunk i is
\* the last sentence of chunk i-1's original text.
C5_InPlaceEqualsSnapshot ==
    rpc = "done" => progress_file = SnapshotRepair(file_before)

\* the condition of C8 on the trimmed texts of chunk i-1 and chunk i
C8_MustRewrite(prev, cur) ==
    /\ cur # << >>
    /\ cur[1] \in LowerLetters
    /\ prev = << >> \/ prev[Len(prev)] \notin {".", "!", "?"}

\* ls is what follows the last sentence-ending character followed by whitespace in prev
C8_IsLastSentence(ls, prev) ==
    LET p == Len(prev) - Len(ls)
    IN  /\ IsSuffix(ls, prev)
        /\ ls = << >> \/ ls[1] \notin PySpace
        /\ \A k \in 2..Len(ls) : ~(ls[k] \in PySpace /\ ls[k - 1] \in {".", "!", "?"})
        /\ \/ p = 0
           \/ /\ prev[p] \in PySpace
              /\ \E j \in 1..(p - 1) :
                    /\ prev[j] \in {".", "!", "?"}
                    /\ \A m \in (j + 1)..p : prev[m] \in PySpace

\* what one iteration of the inner loop does to the document, by C8
C8_Step ==
    LET d == Head(doc_queue)
        prev == Strip(enriched_docs[d][i].text)
        cur == Strip(enriched_docs[d][i + 1].text)
        rewrites == Len(printed') > Len(printed)
    IN  /\ rewrites <=> C8_MustRewrite(prev, cur)
        /\ rewrites =>
              \E n \in 0..Len(prev) :
                 LET ls == SubSeq(prev, Len(prev) - n + 1, Len(prev))
                 IN  /\ C8_IsLastSentence(ls, prev)
                     /\ enriched_docs'[d][i + 1].text = ls \o << " " >> \o cur
        /\ ~rewrites => enriched_docs' = enriched_docs

\* the texts a.txt's chunks had when the run read them
TextsBefore == [k \in 1..Len(file_before["a.txt"]) |-> file_before["a.txt"][k].text]

\* the spec's example: "Dokument soderzhit pravila" + "registratsii uchastnikov." is
\* joined, and nothing is rewritten when prev ends in "."
C8_Example ==
    rpc = "done" =>
        /\ TextsBefore = << ExamplePrev, ExampleCur >>
              => progress_file["a.txt"][2].text = ExamplePrev \o << " " >> \o ExampleCur
        /\ TextsBefore = << ExamplePrev \o << "." >>, ExampleCur >>
              => progress_file = file_before

\* C8: chunk i (i >= 1) is rewritten if and only if its trimmed text begins with a
\* lower-case letter and chunk i-1's trimmed text does not end in ".", "!" or "?";
\* the new text is the last sentence of the previous chunk, one blank, the trimmed
\* current text; the spec's example is rewritten as the spec says.
C8_RewriteRule ==
    /\ [][rpc = "chunks" /\ i' = i + 1 => C8_Step]_vars
    /\ []C8_Example

\* the pass is over and prepended a sentence cut out of a longer previous text
C8_Witness ==
    /\ rpc = "done"
    /\ \E k \in 1..Len(printed) :
          /\ printed[k][3] # << >>
          /\ Len(printed[k][3]) < Len(Strip(progress_file["a.txt"][printed[k][2]].text))

\* mapping m differs from the mapping the run read in rewritten texts alone
C9_Frame(m) ==
    /\ DOMAIN m = DOMAIN file_before
    /\ \A d \in DOMAIN m :
          /\ Len(m[d]) = Len(file_before[d])
          /\ Len(m[d]) < 2 => m[d] = file_before[d]
          /\ \A k \in 1..Len(m[d]) :
                /\ DOMAIN m[d][k] = {"text", "metadata"}
                /\ m[d][k].metadata = file_before[d][k].metadata
                /\ k = 1 => m[d][k] = file_before[d][k]
                /\ \/ m[d][k].text = file_before[d][k].text
                   \/ /\ IsSuffix(Strip(file_before[d][k].text), m[d][k].text)
                      /\ Len(m[d][k].text) > Len(Strip(file_before[d][k].text))

\* C9: the pass changes nothing but the texts it rewrites: the documents, the number
\* and order of each document's chunks, every metadata, every first chunk and every
\* document of fewer than two chunks stay as read, and a rewritten text ends with the
\* chunk's original trimmed text.
C9_OnlyTextsChange ==
    /\ C9_Frame(progress_file)
    /\ rpc \in {"docs", "chunks", "done"} => C9_Frame(enriched_docs)

\* the pass is over, it rewrote a text of a.txt and passed over the one-chunk b.txt
C9_Witness ==
    /\ rpc = "done"
    /\ \E k \in 1..Len(progress_file["a.txt"]) :
          progress_file["a.txt"][k].text # file_before["a.txt"][k].text
    /\ Len(progress_file["b.txt"]) < 2

-----------------------------------------------------------------------------
(* parse_sections (chunking.py) *)

\* s.split(c) for a one-character separator c
RECURSIVE SplitOn(_, _)
SplitOn(s, c) ==
    IF \A k \in 1..Len(s) : s[k] # c
    THEN << s >>
    ELSE LET k == CHOOSE k \in 1..Len(s) : s[k] = c /\ \A j \in 1..(k - 1) : s[j] # c
         IN  << SubSeq(s, 1, k - 1) >> \o SplitOn(SubSeq(s, k + 1, Len(s)), c)

\* s.count(c)
Count(s, c) == Cardinality({ k \in 1..Len(s) : s[k] = c })

\* the position after the run of digits \d+ that starts at position p
DigitRunEnd(line, p) ==
    CHOOSE q \in p..(Len(line) + 1) :
        /\ q = Len(line) + 1 \/ ~IsDigit(line[q])
        /\ \A j \in p..(q - 1) : IsDigit(line[j])

\* the position after the greedy repetition (?:\.\d+)* that starts at position p
RECURSIVE GroupsEnd(_, _)
GroupsEnd(line, p) ==
    IF p + 1 <= Len(line) /\ line[p] = "." /\ IsDigit(line[p + 1])
    THEN GroupsEnd(line, DigitRunEnd(line, p + 1))
    ELSE p

\* the position after group 1 of header_pattern, \d+(?:\.\d+)*\.?
NumberEnd(line) ==
    LET g == GroupsEnd(line, DigitRunEnd(line, 1))
    IN  IF g <= Len(line) /\ line[g] = "." THEN g + 1 ELSE g

\* line 50: header_pattern.match(line), for a line without "\n"
HeaderMatches(line) ==
    /\ DigitRunEnd(line, 1) > 1
    /\ NumberEnd(line) <= Len(line)
    /\ line[NumberEnd(line)] \in PySpace
    /\ LStrip(SubSeq(line, NumberEnd(line), Len(line))) # << >>

\* line 52: match.group(1)
HeaderNumber(line) == SubSeq(line, 1, NumberEnd(line) - 1)

\* line 53: match.group(2).strip()
HeaderTitle(line) == Strip(SubSeq(line, NumberEnd(line), Len(line)))

TitleLimit == 200

\* IsHeading without the checks of the title
IsHeadingAnyCandidate(line) == HeaderMatches(line)

\* line 57
IsHeading(line) ==
    /\ HeaderMatches(line)
    /\ Len(HeaderTitle(line)) < TitleLimit
    /\ Count(HeaderTitle(line), ".") <= 1

\* line 64
SectionLevel(number) ==
    IF Count(number, ".") > 0 THEN Len(SplitOn(number, ".")) - 1 ELSE 1

\* line 70: ".".join(number.split(".")[:-1]) + "."
ParentNum(number) ==
    LET parts == SplitOn(number, ".")
    IN  Join(<<".">>, SubSeq(parts, 1, Len(parts) - 1)) \o <<".">>

PathSep == <<" ", ">", " ">>

\* lines 67-78: the path of the nearest earlier section whose number is parent_num
ParentPath(secs, number) ==
    LET hits == { k \in 1..Len(secs) : secs[k].number = ParentNum(number) }
    IN  IF SectionLevel(number) <= 1 \/ hits = {}
        THEN << >>
        ELSE LET sec == secs[CHOOSE k \in hits : \A j \in hits : j <= k]
             IN  IF sec.parent_path # << >>
                 THEN sec.parent_path \o PathSep \o sec.title
                 ELSE sec.title

\* lines 60-62 and 100-102: the open section is closed and emitted
Emit(secs, open, lines_of_content) ==
    IF open = << >>
    THEN secs
    ELSE Append(secs, [open[1] EXCEPT !.content = Strip(Join(<<"\n">>, lines_of_content))])

\* line 37, for the document that hierarchical_chunk_documents is working on
Lines == SplitOn(documents[DocNames[1]], "\n")

\* lines 42-97: one iteration of the while loop
ParseLine ==
    /\ ppc = "parse"
    /\ parse_i < Len(Lines)
    /\ LET line == Strip(Lines[parse_i + 1])
       IN  IF line = << >>
           THEN UNCHANGED <<sections, current_section, current_content>>
           ELSE IF IsHeading(line)
           THEN LET number == HeaderNumber(line)
                    emitted == Emit(sections, current_section, current_content)
                IN  /\ sections' = emitted
                    /\ current_section' =
                           << [level |-> SectionLevel(number), number |-> number,
                               title |-> HeaderTitle(line), content |-> << >>,
                               parent_path |-> ParentPath(emitted, number)] >>
                    /\ current_content' = << >>
           ELSE /\ current_content' = IF current_section # << >>
                                      THEN Append(current_content, line)
                                      ELSE current_content
                /\ UNCHANGED <<sections, current_section>>
    /\ parse_i' = parse_i + 1
    /\ UNCHANGED <<documents, section_i, all_chunks, chunk_section, chunked_docs, ppc>>
    /\ UNCHANGED <<chunkVars, repairVars, enrichVars>>

\* lines 42 false, 99-104: the last section is emitted and the list returned
ParseEnd ==
    /\ ppc = "parse"
    /\ parse_i >= Len(Lines)
    /\ sections' = Emit(sections, current_section, current_content)
    /\ ppc' = "sections"
    /\ UNCHANGED <<documents, parse_i, current_section, current_content, section_i,
                   all_chunks, chunk_section, chunked_docs>>
    /\ UNCHANGED <<chunkVars, repairVars, enrichVars>>

-----------------------------------------------------------------------------
(* extract_keywords_from_title and hierarchical_chunk_documents (chunking.py) *)

Capitals == <<"A", "B", "C", "D", "E", "F", "G", "H", "I", "J", "K", "L", "M", "N", "O", "P", "Q", "R", "S", "T", "U", "V", "W", "X", "Y", "Z">>

Smalls == <<"a", "b", "c", "d", "e", "f", "g", "h", "i", "j", "k", "l", "m", "n", "o", "p", "q", "r", "s", "t", "u", "v", "w", "x", "y", "z">>

\* str.lower() of one character, for the Latin letters
LowerChar(c) ==
    IF \E k \in 1..Len(Capitals) : Capitals[k] = c
    THEN Smalls[CHOOSE k \in 1..Len(Capitals) : Capitals[k] = c]
    ELSE c

\* s.lower()
Lower(s) == [k \in 1..Len(s) |-> LowerChar(s[k])]

\* s.split(): the maximal runs of non-whitespace characters
RECURSIVE SplitWords(_)
SplitWords(s) ==
    LET t == LStrip(s)
    IN  IF t = << >>
        THEN << >>
        ELSE LET e == CHOOSE e \in 1..Len(t) :
                          /\ e = Len(t) \/ t[e + 1] \in PySpace
                          /\ \A j \in 1..e : t[j] \notin PySpace
             IN  << SubSeq(t, 1, e) >> \o SplitWords(SubSeq(t, e + 1, Len(t)))

MinKeywordLen == 3

MaxKeywords == 5

\* extract_keywords_from_title without the cut of line 278
ExtractAllLongWords(title) ==
    SelectSeq(SplitWords(Lower(title)), LAMBDA word : Len(word) > MinKeywordLen)

\* lines 273-278
extract_keywords_from_title(title) ==
    LET long == SelectSeq(SplitWords(Lower(title)), LAMBDA word : Len(word) > MinKeywordLen)
    IN  SubSeq(long, 1, Min(MaxKeywords, Len(long)))

\* f"{section.number} {section.title}"
NumberedTitle(section) == section.number \o <<" ">> \o section.title

\* SectionPath without the parent path
SectionPathOwnOnly(section) == NumberedTitle(section)

\* lines 260-264
SectionPath(section) ==
    IF section.parent_path # << >>
    THEN section.parent_path \o PathSep \o NumberedTitle(section)
    ELSE NumberedTitle(section)

\* lines 243-254: the next section is handed to create_adaptive_chunks
SectionCall ==
    /\ ppc = "sections"
    /\ section_i < Len(sections)
    /\ LET section == sections[section_i + 1]
       IN  /\ content' = section.content
           /\ section_title' = NumberedTitle(section)
           /\ keywords' = extract_keywords_from_title(section.title)
    /\ start' = 0 /\ chunks' = << >> /\ ranges' = << >> /\ pc' = "call"
    /\ ppc' = "chunking"
    /\ UNCHANGED <<base_chunk_size>>
    /\ UNCHANGED <<documents, parse_i, sections, current_section, current_content,
                   section_i, all_chunks, chunk_section, chunked_docs>>
    /\ UNCHANGED <<repairVars, enrichVars>>

\* lines 256-266: the section's chunks get its level and path and join the document's
SectionAssemble ==
    /\ ppc = "chunking"
    /\ pc = "done"
    /\ LET section == sections[section_i + 1]
       IN  all_chunks' = all_chunks \o
               [k \in 1..Len(chunks) |->
                   [chunks[k] EXCEPT !.hierarchy_level = section.level,
                                     !.section_path = SectionPath(section)]]
    /\ chunk_section' = chunk_section \o [k \in 1..Len(chunks) |-> section_i + 1]
    /\ section_i' = section_i + 1
    /\ ppc' = "sections"
    /\ pc' = "idle"
    /\ UNCHANGED <<content, section_title, keywords, base_chunk_size, start, chunks, ranges>>
    /\ UNCHANGED <<documents, parse_i, sections, current_section, current_content,
                   chunked_docs>>
    /\ UNCHANGED <<repairVars, enrichVars>>

\* lines 238, 268-270: the document's chunk list is stored and the mapping returned
DocDone ==
    /\ ppc = "sections"
    /\ section_i >= Len(sections)
    /\ chunked_docs' = [d \in DOMAIN documents |-> all_chunks]
    /\ ppc' = "chunked"
    /\ UNCHANGED <<documents, parse_i, sections, current_section, current_content,
                   section_i, all_chunks, chunk_section>>
    /\ UNCHANGED <<chunkVars, repairVars, enrichVars>>

-----------------------------------------------------------------------------
(* add_metadata_to_hierarchical_chunks (add_metadata.py) *)

\* generate_metadata_with_llm: what the model answered, or the fallback of lines 65-70
LlmResults ==
    { [summary |-> "summary", category |-> "category", questions |-> "questions"],
      [summary |-> "Rezyume nedostupno", category |-> "Neizvestno", questions |-> ""] }

\* extract_document_title when Names_of_ documents.txt names the document
DocumentTitle(doc_name) == [d \in {"a.txt", "b.txt"} |-> "Title of " \o d][doc_name]

\* lines 147-157: the record of one chunk
EnrichedChunk(chunk, llm, document_title) ==
    [text |-> chunk.text,
     metadata |-> [summary |-> llm.summary, category |-> llm.category,
                   questions |-> llm.questions,
                   document_title |-> document_title,
                   section_path |-> chunk.section_path,
                   hierarchy_level |-> chunk.hierarchy_level,
                   section_title |-> chunk.section_title,
                   keywords |-> Join(<<",", " ">>, chunk.keywords),
                   overlap_size |-> IF chunk.overlap_info # << >>
                                    THEN << chunk.overlap_info[1].overlap_size >>
                                    ELSE << >>]]

\* AlreadyProcessed that finds no document
NeverProcessed(doc_name, docs) == FALSE

\* line 124: the document is in the mapping already
AlreadyProcessed(doc_name, docs) == doc_name \in DOMAIN docs

\* lines 101-120: a run begins and reads the progress file; json.load raises on a file
\* that was opened for writing and never dumped
EnrichStart ==
    /\ ppc = "chunked"
    /\ epc = "idle"
    /\ enrich_runs < MaxRuns
    /\ enrich_runs' = enrich_runs + 1
    /\ IF hier_torn
       THEN /\ epc' = "JSONDecodeError"
            /\ UNCHANGED <<hier_docs, enrich_queue, loaded_docs>>
       ELSE /\ epc' = "docs"
            /\ hier_docs' = hier_file
            /\ loaded_docs' = hier_file
            /\ enrich_queue' = SelectSeq(DocNames, LAMBDA d : d \in DOMAIN chunked_docs)
    /\ enriched_chunks' = << >>
    /\ UNCHANGED <<hier_file, hier_torn>>
    /\ UNCHANGED <<chunkVars, repairVars, parseVars>>

\* lines 123-126: a document of the loaded mapping is passed over
EnrichSkip ==
    /\ epc = "docs"
    /\ enrich_queue # << >>
    /\ AlreadyProcessed(Head(enrich_queue), hier_docs)
    /\ enrich_queue' = Tail(enrich_queue)
    /\ UNCHANGED <<hier_file, hier_docs, enriched_chunks, epc, hier_torn, loaded_docs,
                   enrich_runs>>
    /\ UNCHANGED <<chunkVars, repairVars, parseVars>>

\* lines 123-134: a new document is begun
EnrichEnter ==
    /\ epc = "docs"
    /\ enrich_queue # << >>
    /\ ~AlreadyProcessed(Head(enrich_queue), hier_docs)
    /\ enriched_chunks' = << >>
    /\ epc' = "chunks"
    /\ UNCHANGED <<hier_file, hier_docs, hier_torn, enrich_queue, loaded_docs, enrich_runs>>
    /\ UNCHANGED <<chunkVars, repairVars, parseVars>>

\* lines 137-157: one chunk of the document is enriched
EnrichChunk ==
    /\ epc = "chunks"
    /\ Len(enriched_chunks) < Len(chunked_docs[Head(enrich_queue)])
    /\ \E llm \in LlmResults :
          enriched_chunks' =
              Append(enriched_chunks,
                     EnrichedChunk(chunked_docs[Head(enrich_queue)][Len(enriched_chunks) + 1],
                                   llm, DocumentTitle(Head(enrich_queue))))
    /\ UNCHANGED <<hier_file, hier_docs, epc, hier_torn, enrich_queue, loaded_docs,
                   enrich_runs>>
    /\ UNCHANGED <<chunkVars, repairVars, parseVars>>

\* lines 185-190: the document is done, its records join the mapping, and open(..., "w")
\* empties the progress file
EnrichOpen ==
    /\ epc = "chunks"
    /\ Len(enriched_chunks) >= Len(chunked_docs[Head(enrich_queue)])
    /\ hier_docs' = [d \in DOMAIN hier_docs \cup {Head(enrich_queue)} |->
                        IF d = Head(enrich_queue) THEN enriched_chunks ELSE hier_docs[d]]
    /\ hier_file' = << >>
    /\ hier_torn' = TRUE
    /\ epc' = "writing"
    /\ UNCHANGED <<enriched_chunks, enrich_queue, loaded_docs, enrich_runs>>
    /\ UNCHANGED <<chunkVars, repairVars, parseVars>>

\* lines 191-192: json.dump has written the whole mapping, the file is closed
EnrichDump ==
    /\ epc = "writing"
    /\ hier_file' = hier_docs
    /\ hier_torn' = FALSE
    /\ enrich_queue' = Tail(enrich_queue)
    /\ epc' = "docs"
    /\ UNCHANGED <<hier_docs, enriched_chunks, loaded_docs, enrich_runs>>
    /\ UNCHANGED <<chunkVars, repairVars, parseVars>>

\* lines 123 (loop over), 193: the mapping is returned
EnrichReturn ==
    /\ epc = "docs"
    /\ enrich_queue = << >>
    /\ epc' = "returned"
    /\ UNCHANGED <<hier_file, hier_docs, enriched_chunks, hier_torn, enrich_queue,
                   loaded_docs, enrich_runs>>
    /\ UNCHANGED <<chunkVars, repairVars, parseVars>>

\* the process is stopped in the middle of a run: what it holds in memory is gone,
\* the progress file stays as the run left it
EnrichInterrupt ==
    /\ epc \in {"docs", "chunks", "writing"}
    /\ epc' = "interrupted"
    /\ hier_docs' = << >> /\ enriched_chunks' = << >> /\ enrich_queue' = << >>
    /\ UNCHANGED <<hier_file, hier_torn, loaded_docs, enrich_runs>>
    /\ UNCHANGED <<chunkVars, repairVars, parseVars>>

\* the function is called again on the same chunked_docs
EnrichAgain ==
    /\ epc \in {"interrupted", "returned", "JSONDecodeError"}
    /\ enrich_runs < MaxRuns
    /\ epc' = "idle"
    /\ UNCHANGED <<hier_file, hier_docs, enriched_chunks, hier_torn, enrich_queue,
                   loaded_docs, enrich_runs>>
    /\ UNCHANGED <<chunkVars, repairVars, parseVars>>

\* the enriched records are stored under the name that fix_overlap.py reads (its line 7)
Handover ==
    /\ epc = "returned"
    /\ rpc = "idle"
    /\ progress_file' = hier_file
    /\ file_before' = hier_file
    /\ rpc' = "start"
    /\ UNCHANGED <<enriched_docs, doc_queue, i, file_first, printed>>
    /\ UNCHANGED <<chunkVars, parseVars, enrichVars>>

-----------------------------------------------------------------------------
(* Documents: chunking, enrichment and repair in a row *)

\* "2. Rules"
HeadingTwo == <<"2", ".", " ", "R", "u", "l", "e", "s">>

\* "2.3. Terms"
HeadingTwoThree == <<"2", ".", "3", ".", " ", "T", "e", "r", "m", "s">>

\* "2.3.1 Dates"
HeadingTwoThreeOne == <<"2", ".", "3", ".", "1", " ", "D", "a", "t", "e", "s">>

\* "1. Use it. Save it.": a numbered line with two periods
NumberedSentences == <<"1", ".", " ", "U", "s", "e", " ", "i", "t", ".", " ", "S", "a", "v", "e", " ", "i", "t", ".">>

\* "ab cd ef gh ij."
ContentLine == <<"a", "b", " ", "c", "d", " ", "e", "f", " ", "g", "h", " ", "i", "j", ".">>

LineKinds == { HeadingTwo, HeadingTwoThree, HeadingTwoThreeOne, NumberedSentences,
               ContentLine, << >> }

DocTexts == { Join(<<"\n">>, ls) : ls \in UNION { [1..n -> LineKinds] : n \in 0..MaxLines } }

\* a base size that splits a content line, and the default
PipelineBaseSizes == {12, DefaultBaseChunkSize}

InitPipeline ==
    /\ \E t \in DocTexts : documents = [d \in {DocNames[1]} |-> t]
    /\ base_chunk_size \in PipelineBaseSizes
    /\ parse_i = 0 /\ sections = << >> /\ current_section = << >>
    /\ current_content = << >> /\ section_i = 0 /\ all_chunks = << >>
    /\ chunk_section = << >> /\ chunked_docs = << >> /\ ppc = "parse"
    /\ hier_file = << >> /\ hier_docs = << >> /\ enriched_chunks = << >> /\ epc = "idle"
    /\ hier_torn = FALSE /\ enrich_queue = << >> /\ loaded_docs = << >> /\ enrich_runs = 0
    /\ content = << >> /\ section_title = << >> /\ keywords = << >>
    /\ start = 0 /\ chunks = << >> /\ ranges = << >> /\ pc = "idle"
    /\ RepairIdle

NextPipeline ==
    \/ ParseLine \/ ParseEnd \/ SectionCall \/ Call \/ Iterate \/ LoopExit
    \/ SectionAssemble \/ DocDone
    \/ EnrichStart \/ EnrichEnter \/ EnrichChunk \/ EnrichOpen \/ EnrichDump
    \/ EnrichReturn \/ Handover
    \/ Load \/ SkipDoc \/ EnterDoc \/ RepairChunk \/ LeaveDoc \/ Save

\* a document is parsed and chunked, its chunks are enriched, the records are repaired
SpecPipeline == InitPipeline /\ [][NextPipeline]_vars

-----------------------------------------------------------------------------
(* Documents for parse_sections alone *)

\* "2 Aims": a number without any dot
HeadingBare == <<"2", " ", "A", "i", "m", "s">>

\* "2.3 Scope": two digit groups, no trailing dot
HeadingTwoThreeBare == <<"2", ".", "3", " ", "S", "c", "o", "p", "e">>

\* "1. Save as pdf.": a numbered sentence, one period at its end
NumberedSentence == <<"1", ".", " ", "S", "a", "v", "e", " ", "a", "s", " ", "p", "d", "f", ".">>

\* "  cd ef \t": a content line with blanks before and after
IndentedLine == <<" ", " ", "c", "d", " ", "e", "f", " ", "\t">>

\* "3. aaa...": a candidate heading whose title has TitleLimit characters
LongCandidate == <<"3", ".", " ">> \o [k \in 1..TitleLimit |-> "a"]

ParseLineKinds == { HeadingTwo, HeadingBare, HeadingTwoThreeBare, NumberedSentence,
                    NumberedSentences, IndentedLine, LongCandidate, << >> }

ParseDocTexts ==
    { Join(<<"\n">>, ls) : ls \in UNION { [1..n -> ParseLineKinds] : n \in 0..MaxLines } }

InitParse ==
    /\ \E t \in ParseDocTexts : documents = [d \in {DocNames[1]} |-> t]
    /\ base_chunk_size = DefaultBaseChunkSize
    /\ parse_i = 0 /\ sections = << >> /\ current_section = << >>
    /\ current_content = << >> /\ section_i = 0 /\ all_chunks = << >>
    /\ chunk_section = << >> /\ chunked_docs = << >> /\ ppc = "parse"
    /\ hier_file = << >> /\ hier_docs = << >> /\ enriched_chunks = << >> /\ epc = "idle"
    /\ hier_torn = FALSE /\ enrich_queue = << >> /\ loaded_docs = << >> /\ enrich_runs = 0
    /\ content = << >> /\ section_title = << >> /\ keywords = << >>
    /\ start = 0 /\ chunks = << >> /\ ranges = << >> /\ pc = "idle"
    /\ RepairIdle

NextParse == ParseLine \/ ParseEnd

\* parse_sections on documents of headings, candidates, content and blank lines
SpecParse == InitParse /\ [][NextParse]_vars

-----------------------------------------------------------------------------
(* Section titles for extract_keywords_from_title *)

\* "Pro" (three characters), "Obshie", "PRAVILA"
TitleWords == { <<"P", "r", "o">>, <<"O", "b", "s", "h", "i", "e">>, <<"P", "R", "A", "V", "I", "L", "A">> }

\* the whitespace after the k-th word of a title: a blank, a tab, two blanks, in turn
TitleSeparator(k) == << <<" ">>, <<"\t">>, <<" ", " ">> >>[(k % 3) + 1]

\* the words of ws from the k-th on, each followed by whitespace except the last
RECURSIVE TitleFrom(_, _)
TitleFrom(ws, k) ==
    IF k > Len(ws) THEN << >>
    ELSE IF k = Len(ws) THEN ws[k]
    ELSE ws[k] \o TitleSeparator(k) \o TitleFrom(ws, k + 1)

SectionTitles ==
    { TitleFrom(ws, 1) : ws \in UNION { [1..n -> TitleWords] : n \in 1..MaxTitleWords } }

\* the document "1. <title>" with one content line "x"
TitledDoc(title) == <<"1", ".", " ">> \o title \o <<"\n", "x">>

InitKeywords ==
    /\ \E title \in SectionTitles : documents = [d \in {DocNames[1]} |-> TitledDoc(title)]
    /\ base_chunk_size = DefaultBaseChunkSize
    /\ parse_i = 0 /\ sections = << >> /\ current_section = << >>
    /\ current_content = << >> /\ section_i = 0 /\ all_chunks = << >>
    /\ chunk_section = << >> /\ chunked_docs = << >> /\ ppc = "parse"
    /\ hier_file = << >> /\ hier_docs = << >> /\ enriched_chunks = << >> /\ epc = "idle"
    /\ hier_torn = FALSE /\ enrich_queue = << >> /\ loaded_docs = << >> /\ enrich_runs = 0
    /\ content = << >> /\ section_title = << >> /\ keywords = << >>
    /\ start = 0 /\ chunks = << >> /\ ranges = << >> /\ pc = "idle"
    /\ RepairIdle

NextKeywords == ParseLine \/ ParseEnd \/ SectionCall \/ Call \/ SectionAssemble \/ DocDone

\* hierarchical_chunk_documents on one-section documents with titles of many words
SpecKeywords == InitKeywords /\ [][NextKeywords]_vars

-----------------------------------------------------------------------------
(* Runs of add_metadata_to_hierarchical_chunks on two chunked documents *)

\* the n chunks of a document, as hierarchical_chunk_documents returns them
SampleChunks(n) ==
    [k \in 1..n |->
        HierarchicalChunk(ChunkText(<<"1", ".", " ", "a", "b">>, << >>, [j \in 1..k |-> "a"]),
                          <<"1", ".", " ", "a", "b">>, << >>,
                          IF k > 1
                          THEN << [overlap_size |-> 0, previous_chunk_end |-> << >>] >>
                          ELSE << >>)]

\* the chunk lists of a.txt and b.txt: none, one or two chunks each
ChunkedInputs ==
    { [d \in {"a.txt", "b.txt"} |-> SampleChunks(n[d])] :
        n \in [{"a.txt", "b.txt"} -> {0, 1, 2}] }

InitEnrich ==
    /\ chunked_docs \in ChunkedInputs
    /\ ppc = "chunked"
    /\ documents = << >> /\ parse_i = 0 /\ sections = << >> /\ current_section = << >>
    /\ current_content = << >> /\ section_i = 0 /\ all_chunks = << >>
    /\ chunk_section = << >>
    /\ hier_file = << >> /\ hier_docs = << >> /\ enriched_chunks = << >> /\ epc = "idle"
    /\ hier_torn = FALSE /\ enrich_queue = << >> /\ loaded_docs = << >> /\ enrich_runs = 0
    /\ content = << >> /\ section_title = << >> /\ keywords = << >>
    /\ base_chunk_size = DefaultBaseChunkSize
    /\ start = 0 /\ chunks = << >> /\ ranges = << >> /\ pc = "idle"
    /\ RepairIdle

NextEnrich ==
    \/ EnrichStart \/ EnrichSkip \/ EnrichEnter \/ EnrichChunk \/ EnrichOpen \/ EnrichDump
    \/ EnrichReturn \/ EnrichInterrupt \/ EnrichAgain

\* add_metadata_to_hierarchical_chunks run, interrupted and run again
SpecEnrich == InitEnrich /\ [][NextEnrich]_vars

-----------------------------------------------------------------------------
(* Properties of the pipeline *)

\* the sections numbered "2." that were emitted before section k
EarlierTwo(k) == { j \in 1..(k - 1) : sections[j].number = <<"2", ".">> }

\* the chunks of the document that were cut from section k
ChunksOf(k) == { c \in 1..Len(all_chunks) : chunk_section[c] = k }

\* C1: a section numbered "2.3." that follows a section numbered "2." has level 2 and
\* takes its parent_path from the nearest earlier "2.", every chunk assembled for it
\* has hierarchy_level 2 and section_path "<title of 2.> > 2.3. <title of 2.3.>", and
\* its parent_path is empty only when no earlier section is numbered "2."
C1_NestedUnderTwo ==
    ppc = "chunked" =>
        \A k \in 1..Len(sections) :
            sections[k].number = <<"2", ".", "3", ".">> =>
                /\ sections[k].level = 2
                /\ sections[k].parent_path = << >> => EarlierTwo(k) = {}
                /\ EarlierTwo(k) # {} =>
                       LET parent == sections[CHOOSE j \in EarlierTwo(k) :
                                                  \A h \in EarlierTwo(k) : h <= j]
                       IN  /\ sections[k].parent_path = parent.title
                           /\ \A c \in ChunksOf(k) :
                                  /\ all_chunks[c].hierarchy_level = 2
                                  /\ all_chunks[c].section_path =
                                         parent.title \o PathSep \o NumberedTitle(sections[k])

\* the body excerpt of a chunk: its text after the title and keyword prefix
Excerpt(chunk) ==
    SubSeq(chunk.text, Len(ChunkText(chunk.section_title, chunk.keywords, << >>)) + 1,
           Len(chunk.text))

\* chunk c is a non-first chunk whose excerpt continues a sentence that the previous
\* chunk's excerpt leaves open
CutMidSentence(c) ==
    /\ all_chunks[c].overlap_info # << >>
    /\ chunk_section[c] = chunk_section[c - 1]
    /\ StartsWithLowercase(Strip(Excerpt(all_chunks[c])))
    /\ EndsWithoutPeriod(Strip(Excerpt(all_chunks[c - 1])))

\* C6: when the chunker cut a section body in the middle of a sentence, the repair of
\* the enriched records puts a fragment of the preceding chunk in front of the later
\* chunk's text
C6_MidSentenceCutIsRepaired ==
    rpc = "done" =>
        \A c \in 2..Len(all_chunks) :
            CutMidSentence(c) =>
                LET before == file_before[DocNames[1]][c].text
                    after == progress_file[DocNames[1]][c].text
                IN  /\ Len(after) > Len(before)
                    /\ IsSuffix(Strip(before), after)

\* the section that chunk c of the document was cut from
Owner(c) == sections[chunk_section[c]]

\* the mapping is returned: every document has its list, the chunks are in section
\* order, and each has its section's level and full path
C16_Returned ==
    ppc = "chunked" =>
        /\ DOMAIN chunked_docs = DOMAIN documents
        /\ \A d \in DOMAIN chunked_docs :
               /\ Len(chunked_docs[d]) = Len(chunk_section)
               /\ sections = << >> => chunked_docs[d] = << >>
               /\ \A c \in 1..Len(chunked_docs[d]) :
                      /\ c > 1 => chunk_section[c - 1] <= chunk_section[c]
                      /\ chunked_docs[d][c].hierarchy_level = Owner(c).level
                      /\ chunked_docs[d][c].hierarchy_level >= 1
                      /\ chunked_docs[d][c].section_path =
                             IF Owner(c).parent_path = << >>
                             THEN Owner(c).number \o <<" ">> \o Owner(c).title
                             ELSE Owner(c).parent_path \o <<" ", ">", " ">>
                                      \o Owner(c).number \o <<" ">> \o Owner(c).title

\* a section's chunks join the document's list in the order they were cut, which is
\* the order of their start offsets
C16_Appended ==
    (ppc = "chunking" /\ ppc' = "sections") =>
        /\ Len(all_chunks') = Len(all_chunks) + Len(chunks)
        /\ \A k \in 1..Len(chunks) : all_chunks'[Len(all_chunks) + k].text = chunks[k].text
        /\ \A k \in 1..(Len(ranges) - 1) : RangeStart(k) < RangeStart(k + 1)

\* C16: hierarchical_chunk_documents maps every document to its sections' chunks, in
\* section order and in content order within a section, each chunk with its section's
\* level (at least 1) and with section_path = parent_path + " > " + "<number> <title>"
\* (just "<number> <title>" without a parent path); a document without sections is
\* mapped to the empty list
C16_DocumentsToChunks == []C16_Returned /\ [][C16_Appended]_vars

\* a returned document with a section of several chunks under a parent path
C16_Witness ==
    /\ ppc = "chunked"
    /\ \E c \in 2..Len(all_chunks) :
           /\ chunk_section[c - 1] = chunk_section[c]
           /\ Owner(c).parent_path # << >>

-----------------------------------------------------------------------------
(* Properties of parse_sections *)

\* parse_sections has returned
Parsed == ppc = "sections"

\* the number of dot-separated digit groups of a section number
DigitGroups(number) ==
    Cardinality({ p \in 1..Len(number) :
                    IsDigit(number[p]) /\ (p = 1 \/ ~IsDigit(number[p - 1])) })

\* C13: the level of every accepted heading is the number of dot-separated digit
\* groups of its number, with or without a trailing dot, and is at least 1
C13_LevelIsDigitGroups ==
    Parsed => \A k \in 1..Len(sections) :
                  /\ sections[k].level = DigitGroups(sections[k].number)
                  /\ sections[k].level >= 1

\* the lines of the document, each trimmed as line 43 trims it
Trimmed(l) == Strip(Lines[l])

\* a numbered sentence: a number, whitespace, and text that ends with a period
IsNumberedSentence(line) ==
    HeaderMatches(line) /\ HeaderTitle(line)[Len(HeaderTitle(line))] = "."

\* an accepted heading: a candidate whose title is shorter than 200 characters and
\* holds at most one period
Accepted(line) ==
    /\ HeaderMatches(line)
    /\ Len(HeaderTitle(line)) < TitleLimit
    /\ Cardinality({ p \in 1..Len(HeaderTitle(line)) : HeaderTitle(line)[p] = "." }) <= 1

\* the lines of the document that are accepted headings
HeadingLines == { l \in 1..Len(Lines) : Accepted(Trimmed(l)) }

\* the line of the k-th accepted heading
KthHeading(k) ==
    CHOOSE l \in HeadingLines : Cardinality({ h \in HeadingLines : h < l }) = k - 1

\* the line of the next accepted heading after line l, or the line after the last
NextHeading(l) ==
    CHOOSE n \in (l + 1)..(Len(Lines) + 1) :
        /\ n = Len(Lines) + 1 \/ n \in HeadingLines
        /\ \A h \in (l + 1)..(n - 1) : h \notin HeadingLines

\* C14: a numbered sentence (a number followed by text that ends with a period) is not
\* accepted as a heading: no section is opened by it, and when a section is open the
\* line is kept in that section's content
C14_NumberedSentenceIsContent ==
    Parsed =>
        /\ \A k \in 1..Len(sections) :
               sections[k].title[Len(sections[k].title)] # "."
        /\ \A l \in 1..Len(Lines) :
               (IsNumberedSentence(Trimmed(l)) /\ \E h \in HeadingLines : h < l) =>
                   \E k \in 1..Len(sections) :
                       \E c \in 1..Len(SplitOn(sections[k].content, "\n")) :
                           SplitOn(sections[k].content, "\n")[c] = Trimmed(l)

\* the raw text between the heading at line l and the next accepted heading, trimmed
\* at its two ends only
RawBlock(l) == Strip(Join(<<"\n">>, SubSeq(Lines, l + 1, NextHeading(l) - 1)))

\* C15: the content of each section is the raw text between its heading and the next
\* accepted heading, lines kept verbatim (interior blank lines and each line's own
\* leading and trailing whitespace included), only the whole block trimmed
C15_ContentIsRawBlock ==
    Parsed =>
        /\ Len(sections) = Cardinality(HeadingLines)
        /\ \A k \in 1..Len(sections) : sections[k].content = RawBlock(KthHeading(k))

\* the non-blank lines, trimmed, between the heading at line l and the next heading
ContentLines(l) ==
    LET block == SubSeq(Lines, l + 1, NextHeading(l) - 1)
    IN  SelectSeq([j \in 1..Len(block) |-> Strip(block[j])], LAMBDA line : line # << >>)

\* C20: parse_sections emits one section per accepted heading line, in document
\* order; every non-blank line that is not an accepted heading (a rejected candidate
\* included) is in the content of the section of the nearest accepted heading before
\* it and nowhere else; lines before the first heading are dropped; a text without
\* accepted headings gives the empty list
C20_OneSectionPerHeading ==
    Parsed =>
        /\ Len(sections) = Cardinality(HeadingLines)
        /\ \A k \in 1..Len(sections) :
               /\ sections[k].number = HeaderNumber(Trimmed(KthHeading(k)))
               /\ sections[k].title = HeaderTitle(Trimmed(KthHeading(k)))
               /\ sections[k].content = Join(<<"\n">>, ContentLines(KthHeading(k)))

\* a parsed document with a line before its first heading and a rejected candidate
\* in the content of a section
C20_Witness ==
    /\ Parsed
    /\ sections # << >>
    /\ Trimmed(1) # << >> /\ 1 \notin HeadingLines
    /\ \E l \in 1..Len(Lines) :
           /\ HeaderMatches(Trimmed(l)) /\ l \notin HeadingLines
           /\ \E k \in 1..Len(sections) : sections[k].content = Trimmed(l)

-----------------------------------------------------------------------------
(* Properties of extract_keywords_from_title *)

\* the title of the section whose keywords were just extracted
CurrentTitle == sections[section_i + 1].title

\* the positions where a word of the title starts: not whitespace, after whitespace
WordStarts(title) ==
    { a \in 1..Len(title) :
        title[a] \notin {" ", "\t", "\n"} /\ (a = 1 \/ title[a - 1] \in {" ", "\t", "\n"}) }

\* the positions where a word of the title ends: not whitespace, before whitespace
WordEnds(title) ==
    { b \in 1..Len(title) :
        title[b] \notin {" ", "\t", "\n"}
        /\ (b = Len(title) \/ title[b + 1] \in {" ", "\t", "\n"}) }

\* the words of a title: the maximal runs <<first, last>> of characters that are not
\* whitespace
WordRuns(title) ==
    { <<a, CHOOSE b \in WordEnds(title) :
               b >= a /\ \A e \in WordEnds(title) : e >= a => b <= e>> :
      a \in WordStarts(title) }

\* the words of more than 3 characters
LongRuns(title) == { r \in WordRuns(title) : r[2] - r[1] + 1 > 3 }

\* C18: the keywords are the first five (or all, if fewer) whitespace-separated words
\* of the lowercased title that are longer than 3 characters, in title order,
\* repetitions kept; there are never more than 5
C18_FirstFiveLongWords ==
    ppc = "chunking" =>
        LET long == LongRuns(CurrentTitle)
        IN  /\ Len(keywords) <= 5
            /\ Len(keywords) = Min(5, Cardinality(long))
            /\ \A k \in 1..Len(keywords) :
                   \E r \in long :
                       /\ Cardinality({ q \in long : q[1] < r[1] }) = k - 1
                       /\ keywords[k] = Lower(SubSeq(CurrentTitle, r[1], r[2]))

\* a title with more than five long words, capitals among them, and a repetition
C18_Witness ==
    /\ ppc = "chunking"
    /\ Cardinality(LongRuns(CurrentTitle)) > 5
    /\ Lower(CurrentTitle) # CurrentTitle
    /\ \E j, k \in 1..Len(keywords) : j < k /\ keywords[j] = keywords[k]

-----------------------------------------------------------------------------
(* Properties of add_metadata_to_hierarchical_chunks *)

\* a run is under way or has returned
InRun == epc \in {"docs", "chunks", "writing", "returned"}

\* every document in the progress file has one record per chunk, in chunk order
C22_FileHoldsWholeDocuments ==
    \A d \in DOMAIN hier_file :
        /\ Len(hier_file[d]) = Len(chunked_docs[d])
        /\ \A k \in 1..Len(hier_file[d]) : hier_file[d][k].text = chunked_docs[d][k].text

\* the documents the run found in the progress file keep their records: in the file
\* whenever the run has written it, and in the mapping the run returns
C22_LoadedRecordsKept ==
    InRun =>
        \A d \in DOMAIN loaded_docs :
            /\ ~hier_torn => d \in DOMAIN hier_file /\ hier_file[d] = loaded_docs[d]
            /\ d \in DOMAIN hier_docs /\ hier_docs[d] = loaded_docs[d]

\* a chunk is enriched only for a document the run did not find in the progress file
C22_NotEnrichedAgain ==
    (epc = "chunks" /\ Len(enriched_chunks') > Len(enriched_chunks)) =>
        Head(enrich_queue) \notin DOMAIN loaded_docs

\* C22: across runs and interruptions of add_metadata_to_hierarchical_chunks the
\* progress file only holds documents all of whose chunks were enriched (one record
\* per chunk, in chunk order), and a later run passes over a document that is in the
\* progress file: it does not enrich it again and returns its stored records unchanged
C22_ResumeSkipsStoredDocuments ==
    /\ []C22_FileHoldsWholeDocuments
    /\ []C22_LoadedRecordsKept
    /\ [][C22_NotEnrichedAgain]_vars

\* a later run, after an interruption, has passed over a stored document, enriched
\* another one and returned
C22_Witness ==
    /\ epc = "returned"
    /\ enrich_runs >= 2
    /\ \E d \in DOMAIN loaded_docs : loaded_docs[d] # << >>
    /\ \E d \in DOMAIN hier_docs : d \notin DOMAIN loaded_docs /\ hier_docs[d] # << >>

====
